---- MODULE Spec2Model ----
(***************************************************************************)
(* Model of chrome-extension/icons/generate-icons.py: the start-up import  *)
(* of cairosvg (with its install-and-retry fallback), generate_icon and    *)
(* the batch loop, summary and file listing of main.                       *)
(*                                                                         *)
(* The file system and the Python environment are the program's inputs:    *)
(* Init draws the state of every source file, the presence of every        *)
(* destination file and the availability of cairosvg from small sets.      *)
(***************************************************************************)
EXTENDS Integers, Sequences, FiniteSets, TLC

VARIABLES pc, avail, installed, src, dst, idx, success_count, svg_data, ret,
          out, run, prevDst, prevCount

vars == <<pc, avail, installed, src, dst, idx, success_count, svg_data, ret,
          out, run, prevDst, prevCount>>

(* Number of times the script is invoked in a behaviour. *)
MaxRuns == 2

(* The literal job list of main. *)
icons ==
  << [svg |-> "icon-16.svg",     png |-> "icon16.png",  size |-> 16],
     [svg |-> "icon-32.svg",     png |-> "icon32.png",  size |-> 32],
     [svg |-> "icon-48.svg",     png |-> "icon48.png",  size |-> 48],
     [svg |-> "icon-master.svg", png |-> "icon128.png", size |-> 128] >>

Jobs == 1..Len(icons)

(* What a source path can hold: no file, a file whose open/read raises,    *)
(* a file whose text the rasterizer rejects, a file the rasterizer accepts.*)
SrcStates == {"missing", "unreadable", "malformed", "valid"}

(* A destination path holds no file, a file left by something else, or a   *)
(* PNG written by the rasterizer.                                          *)
NoFile == [kind |-> "none", data |-> "", width |-> 0, height |-> 0]

Stale == [kind |-> "stale", data |-> "", width |-> 0, height |-> 0]

(* os.path.exists on a source / destination path *)
src_exists(i) == src[i] # "missing"

dst_exists(d) == d.kind # "none"

(* with open(svg_file, 'r') as f: svg_data = f.read() *)
read_text(i) ==
  IF src[i] \in {"missing", "unreadable"}
    THEN [ok |-> FALSE, text |-> << >>, why |-> "read"]
    ELSE [ok |-> TRUE, text |-> <<src[i], icons[i].svg>>, why |-> ""]

(* svg_data.encode('utf-8') *)
encode_utf8(text) == [enc |-> "utf-8", chars |-> text]

(* cairosvg.svg2png(bytestring, write_to, output_width, output_height):    *)
(* raises on content it rejects, before the output is opened; otherwise    *)
(* the raster it writes is a function of the bytes and the two dimensions. *)
svg2png(bytestring, output_width, output_height) ==
  IF bytestring.chars[1] = "valid"
    THEN [ok |-> TRUE, why |-> "",
          file |-> [kind |-> "png", data |-> bytestring.chars[2],
                    width |-> output_width, height |-> output_height]]
    ELSE [ok |-> FALSE, why |-> "render", file |-> NoFile]

(* One line of console output. *)
Line(kind, file, n, m, why) ==
  [kind |-> kind, file |-> file, n |-> n, m |-> m, why |-> why]

print(l) == out' = Append(out, l)

TypeOK ==
  /\ pc \in {"import", "install", "reimport", "main", "loop", "check", "read",
             "render", "return", "summary", "listing", "done", "crashed"}
  /\ avail \in BOOLEAN
  /\ installed \in BOOLEAN
  /\ src \in [Jobs -> SrcStates]
  /\ idx \in 1..(Len(icons) + 1)
  /\ success_count \in 0..Len(icons)
  /\ ret \in BOOLEAN
  /\ run \in 1..(MaxRuns + 1)

Init ==
  /\ pc = "import"
  /\ avail \in BOOLEAN
  /\ installed = FALSE
  /\ src \in [Jobs -> SrcStates]
  /\ dst \in [Jobs -> {NoFile, Stale}]
  /\ idx = 1
  /\ success_count = 0
  /\ svg_data = << >>
  /\ ret = FALSE
  /\ out = << >>
  /\ run = 1
  /\ prevDst = dst
  /\ prevCount = 0

(* try: import cairosvg / except ImportError: print(...) *)
ImportCairosvg ==
  /\ pc = "import"
  /\ IF avail
       THEN /\ pc' = "main"
            /\ out' = out
       ELSE /\ pc' = "install"
            /\ print(Line("cairosvg-not-found", "", 0, 0, ""))
  /\ UNCHANGED <<avail, installed, src, dst, idx, success_count, svg_data,
                 ret, run, prevDst, prevCount>>

(* os.system("pip3 install cairosvg"): the exit status is ignored, the     *)
(* installation may or may not make the module importable.                 *)
InstallCairosvg ==
  /\ pc = "install"
  /\ installed' = TRUE
  /\ avail' \in BOOLEAN
  /\ pc' = "reimport"
  /\ UNCHANGED <<src, dst, idx, success_count, svg_data, ret, out, run,
                 prevDst, prevCount>>

(* ReimportCairosvg going on to main whatever the import did.              *)
ReimportCairosvg_ignore ==
  /\ pc = "reimport"
  /\ pc' = "main"
  /\ UNCHANGED <<avail, installed, src, dst, idx, success_count, svg_data,
                 ret, out, run, prevDst, prevCount>>

(* the second import, inside the except clause: ImportError is not caught  *)
ReimportCairosvg ==
  /\ pc = "reimport"
  /\ pc' = IF avail THEN "main" ELSE "crashed"
  /\ UNCHANGED <<avail, installed, src, dst, idx, success_count, svg_data,
                 ret, out, run, prevDst, prevCount>>

(* main up to the loop: banner, chdir, success_count = 0 *)
MainStart ==
  /\ pc = "main"
  /\ print(Line("banner", "", 0, 0, ""))
  /\ success_count' = 0
  /\ idx' = 1
  /\ pc' = "loop"
  /\ UNCHANGED <<avail, installed, src, dst, svg_data, ret, run, prevDst,
                 prevCount>>

(* LoopNext leaving the loop one item early.                               *)
LoopNext_short ==
  /\ pc = "loop"
  /\ pc' = IF idx < Len(icons) THEN "check" ELSE "summary"
  /\ UNCHANGED <<avail, installed, src, dst, idx, success_count, svg_data,
                 ret, out, run, prevDst, prevCount>>

(* for svg_file, png_file, size in icons: next item or end of iteration *)
LoopNext ==
  /\ pc = "loop"
  /\ pc' = IF idx <= Len(icons) THEN "check" ELSE "summary"
  /\ UNCHANGED <<avail, installed, src, dst, idx, success_count, svg_data,
                 ret, out, run, prevDst, prevCount>>

(* CheckExists without the continue: a missing source falls through to    *)
(* the conversion and leaves an empty destination behind.                  *)
CheckExists_nocontinue ==
  /\ pc = "check"
  /\ IF ~src_exists(idx)
       THEN /\ print(Line("svg-not-found", icons[idx].svg, 0, 0, ""))
            /\ dst' = [dst EXCEPT ![idx] = Stale]
       ELSE /\ print(Line("generating", icons[idx].png, 0, 0, ""))
            /\ dst' = dst
  /\ idx' = idx
  /\ pc' = "read"
  /\ UNCHANGED <<avail, installed, src, success_count, svg_data, ret,
                 run, prevDst, prevCount>>

(* if not os.path.exists(svg_file): warn and continue; else announce job *)
CheckExists ==
  /\ pc = "check"
  /\ IF ~src_exists(idx)
       THEN /\ print(Line("svg-not-found", icons[idx].svg, 0, 0, ""))
            /\ idx' = idx + 1
            /\ pc' = "loop"
       ELSE /\ print(Line("generating", icons[idx].png, 0, 0, ""))
            /\ idx' = idx
            /\ pc' = "read"
  /\ UNCHANGED <<avail, installed, src, dst, success_count, svg_data, ret,
                 run, prevDst, prevCount>>

(* ReadSvg without the exception handler: the error leaves the batch.      *)
ReadSvg_uncaught ==
  /\ pc = "read"
  /\ LET r == read_text(idx) IN
       IF r.ok
         THEN /\ svg_data' = r.text
              /\ pc' = "render"
         ELSE /\ pc' = "crashed"
              /\ UNCHANGED svg_data
  /\ UNCHANGED <<avail, installed, src, dst, idx, success_count, run,
                 prevDst, prevCount, ret, out>>

(* generate_icon: open and read the source; an exception goes to the       *)
(* handler, which prints the failure and returns False                     *)
ReadSvg ==
  /\ pc = "read"
  /\ LET r == read_text(idx) IN
       IF r.ok
         THEN /\ svg_data' = r.text
              /\ pc' = "render"
              /\ UNCHANGED <<ret, out>>
         ELSE /\ print(Line("failed", icons[idx].png, 0, 0, r.why))
              /\ ret' = FALSE
              /\ pc' = "return"
              /\ UNCHANGED svg_data
  /\ UNCHANGED <<avail, installed, src, dst, idx, success_count, run,
                 prevDst, prevCount>>

(* RenderPng without the exception handler: the error leaves the batch.    *)
RenderPng_uncaught ==
  /\ pc = "render"
  /\ LET r == svg2png(encode_utf8(svg_data), icons[idx].size, icons[idx].size)
     IN IF r.ok
          THEN /\ dst' = [dst EXCEPT ![idx] = r.file]
               /\ print(Line("created", icons[idx].png, icons[idx].size,
                             icons[idx].size, ""))
               /\ ret' = TRUE
               /\ pc' = "return"
          ELSE /\ dst' = dst
               /\ out' = out
               /\ ret' = FALSE
               /\ pc' = "crashed"
  /\ UNCHANGED <<avail, installed, src, idx, success_count, svg_data, run,
                 prevDst, prevCount>>

(* RenderPng asking for the width only.                                    *)
RenderPng_widthonly ==
  /\ pc = "render"
  /\ LET r == svg2png(encode_utf8(svg_data), icons[idx].size, 0)
     IN IF r.ok
          THEN /\ dst' = [dst EXCEPT ![idx] = r.file]
               /\ print(Line("created", icons[idx].png, icons[idx].size,
                             icons[idx].size, ""))
               /\ ret' = TRUE
          ELSE /\ dst' = dst
               /\ print(Line("failed", icons[idx].png, 0, 0, r.why))
               /\ ret' = FALSE
  /\ pc' = "return"
  /\ UNCHANGED <<avail, installed, src, idx, success_count, svg_data, run,
                 prevDst, prevCount>>

(* RenderPng appending to a destination that is already a PNG instead of   *)
(* replacing it.                                                           *)
RenderPng_append ==
  /\ pc = "render"
  /\ LET r == svg2png(encode_utf8(svg_data), icons[idx].size, icons[idx].size)
     IN IF r.ok
          THEN /\ dst' = [dst EXCEPT ![idx] =
                            IF dst[idx].kind = "png"
                              THEN [r.file EXCEPT !.data = "appended"]
                              ELSE r.file]
               /\ print(Line("created", icons[idx].png, icons[idx].size,
                             icons[idx].size, ""))
               /\ ret' = TRUE
          ELSE /\ dst' = dst
               /\ print(Line("failed", icons[idx].png, 0, 0, r.why))
               /\ ret' = FALSE
  /\ pc' = "return"
  /\ UNCHANGED <<avail, installed, src, idx, success_count, svg_data, run,
                 prevDst, prevCount>>

(* generate_icon: the svg2png call, then print Created and return True,    *)
(* or the handler                                                          *)
RenderPng ==
  /\ pc = "render"
  /\ LET r == svg2png(encode_utf8(svg_data), icons[idx].size, icons[idx].size)
     IN IF r.ok
          THEN /\ dst' = [dst EXCEPT ![idx] = r.file]
               /\ print(Line("created", icons[idx].png, icons[idx].size,
                             icons[idx].size, ""))
               /\ ret' = TRUE
          ELSE /\ dst' = dst
               /\ print(Line("failed", icons[idx].png, 0, 0, r.why))
               /\ ret' = FALSE
  /\ pc' = "return"
  /\ UNCHANGED <<avail, installed, src, idx, success_count, svg_data, run,
                 prevDst, prevCount>>

(* ReturnToLoop counting every converted job, whatever generate_icon      *)
(* returned.                                                               *)
ReturnToLoop_countall ==
  /\ pc = "return"
  /\ success_count' = success_count + 1
  /\ idx' = idx + 1
  /\ pc' = "loop"
  /\ UNCHANGED <<avail, installed, src, dst, svg_data, ret, out, run,
                 prevDst, prevCount>>

(* if generate_icon(...): success_count += 1 ; then the next iteration *)
ReturnToLoop ==
  /\ pc = "return"
  /\ success_count' = IF ret THEN success_count + 1 ELSE success_count
  /\ idx' = idx + 1
  /\ pc' = "loop"
  /\ UNCHANGED <<avail, installed, src, dst, svg_data, ret, out, run,
                 prevDst, prevCount>>

(* Summary comparing with >= one less than the job count.                  *)
Summary_offbyone ==
  /\ pc = "summary"
  /\ IF success_count >= Len(icons) - 1
       THEN print(Line("all-succeeded", "", 0, 0, ""))
       ELSE print(Line("generated-n-of-m", "", success_count, Len(icons), ""))
  /\ pc' = "listing"
  /\ UNCHANGED <<avail, installed, src, dst, idx, success_count, svg_data,
                 ret, run, prevDst, prevCount>>

(* the summary line *)
Summary ==
  /\ pc = "summary"
  /\ IF success_count = Len(icons)
       THEN print(Line("all-succeeded", "", 0, 0, ""))
       ELSE print(Line("generated-n-of-m", "", success_count, Len(icons), ""))
  /\ pc' = "listing"
  /\ UNCHANGED <<avail, installed, src, dst, idx, success_count, svg_data,
                 ret, run, prevDst, prevCount>>

(* listing without the os.path.exists test.                                *)
RECURSIVE listing_all(_)
listing_all(i) ==
  IF i > Len(icons) THEN << >>
  ELSE << Line("file", icons[i].png, 0, 0, "") >> \o listing_all(i + 1)

(* the lines of the "Generated files:" listing, for jobs i..Len(icons) *)
RECURSIVE listing(_)
listing(i) ==
  IF i > Len(icons) THEN << >>
  ELSE (IF dst_exists(dst[i])
          THEN << Line("file", icons[i].png, 0, 0, "") >>
          ELSE << >>) \o listing(i + 1)

Listing ==
  /\ pc = "listing"
  /\ out' = out \o listing(1)
  /\ pc' = "done"
  /\ UNCHANGED <<avail, installed, src, dst, idx, success_count, svg_data,
                 ret, run, prevDst, prevCount>>

(* the script is invoked again on the file system the last run left, with  *)
(* the sources unchanged                                                   *)
Rerun ==
  /\ pc = "done"
  /\ run < MaxRuns
  /\ run' = run + 1
  /\ prevDst' = dst
  /\ prevCount' = success_count
  /\ pc' = "import"
  /\ installed' = FALSE
  /\ idx' = 1
  /\ success_count' = 0
  /\ svg_data' = << >>
  /\ ret' = FALSE
  /\ out' = << >>
  /\ UNCHANGED <<avail, src, dst>>

Next ==
  \/ ImportCairosvg
  \/ InstallCairosvg
  \/ ReimportCairosvg
  \/ MainStart
  \/ LoopNext
  \/ CheckExists
  \/ ReadSvg
  \/ RenderPng
  \/ ReturnToLoop
  \/ Summary
  \/ Listing
  \/ Rerun

Spec == Init /\ [][Next]_vars

(* The interpreter runs the script to its end: every enabled step is taken.*)
FairSpec == Spec /\ WF_vars(Next)

(***************************************************************************)
(* Vocabulary of the properties, read off the console output.              *)
(***************************************************************************)
Printed(kind) == {k \in 1..Len(out) : out[k].kind = kind}

SkipLines(i) ==
  {k \in Printed("svg-not-found") : out[k].file = icons[i].svg}

FailLines(i) == {k \in Printed("failed") : out[k].file = icons[i].png}

OkLines(i) == {k \in Printed("created") : out[k].file = icons[i].png}

StartLines(i) == {k \in Printed("generating") : out[k].file = icons[i].png}

OutcomeLines(i) == SkipLines(i) \cup FailLines(i) \cup OkLines(i)

Skipped(i) == SkipLines(i) # {}

Failed(i) == FailLines(i) # {}

Succeeded(i) == OkLines(i) # {}

InBatch == pc \in {"loop", "check", "read", "render", "return"}

AfterBatch == pc \in {"summary", "listing", "done"}

AfterSummary == pc \in {"listing", "done"}

(* job i has been passed by the loop of the current run *)
Processed(i) == (InBatch /\ idx > i) \/ AfterBatch

SummaryLines == Printed("all-succeeded") \cup Printed("generated-n-of-m")

(* the success count the summary line states *)
Reported ==
  IF Printed("all-succeeded") # {} THEN Len(icons)
  ELSE out[CHOOSE k \in Printed("generated-n-of-m") : TRUE].n

(***************************************************************************)
(* C1: a job whose source file is missing when it is reached creates and   *)
(* alters no destination file, does not increment the success counter,     *)
(* and the batch goes on with the next job.                                *)
(***************************************************************************)
C1_MissingSourceSkipped ==
  /\ [][(pc = "check" /\ src[idx] = "missing")
          => /\ dst' = dst
             /\ success_count' = success_count
             /\ idx' = idx + 1
             /\ pc' = "loop"
             /\ Len(out') = Len(out) + 1
             /\ out'[Len(out')].kind = "svg-not-found"]_vars
  /\ [](\A i \in Jobs :
          (src[i] = "missing" /\ Processed(i))
            => /\ dst[i] = prevDst[i]
               /\ Skipped(i) /\ ~Succeeded(i) /\ ~Failed(i)
               /\ success_count <= Cardinality({j \in Jobs : src[j] # "missing"}))
  /\ [](\A i \in Jobs :
          (src[i] = "missing" /\ AfterBatch)
            => \A j \in Jobs : Cardinality(OutcomeLines(j)) = 1)

C1_Witness ==
  /\ src[1] = "missing" /\ dst[1] = Stale
  /\ src[2] = "missing" /\ dst[2] = NoFile
  /\ Succeeded(3)
  /\ pc = "done"

(***************************************************************************)
(* C2: a conversion failure (reading the source or the rasterizer raising) *)
(* is caught inside its job, is reported as a failure without incrementing *)
(* the success counter, and never aborts the batch: the jobs before it     *)
(* have been processed and the jobs after it are still processed.          *)
(***************************************************************************)
C2_FailureCaught ==
  /\ [][((pc = "read" /\ ~read_text(idx).ok)
          \/ (pc = "render" /\ ~svg2png(encode_utf8(svg_data), 1, 1).ok))
          => /\ pc' = "return"
             /\ ret' = FALSE
             /\ success_count' = success_count
             /\ idx' = idx
             /\ FailLines(idx)' # {}]_vars
  /\ [][(pc = "return" /\ ~ret)
          => /\ success_count' = success_count
             /\ idx' = idx + 1
             /\ pc' = "loop"]_vars
  /\ [](\A i \in Jobs :
          Failed(i)
            => /\ pc # "crashed"
               /\ ~Succeeded(i)
               /\ \A j \in Jobs : j < i => Cardinality(OutcomeLines(j)) = 1
               /\ AfterBatch
                    => /\ \A j \in Jobs : Cardinality(OutcomeLines(j)) = 1
                       /\ success_count <= Len(icons) - 1)
  /\ [](\A i \in Jobs :
          (src[i] \in {"unreadable", "malformed"} /\ Processed(i))
            => Failed(i))

C2_Witness ==
  /\ pc = "done"
  /\ src[1] = "valid" /\ Succeeded(1)
  /\ src[2] = "malformed" /\ Failed(2)
  /\ src[3] = "unreadable" /\ Failed(3)
  /\ src[4] = "valid" /\ Succeeded(4)
  /\ success_count = 2

(***************************************************************************)
(* C3: the reported success count is the number of jobs that were neither  *)
(* skipped nor failed, and the counter never exceeds the number of jobs    *)
(* processed so far nor the total job count.                               *)
(***************************************************************************)
C3_CountExact ==
  /\ (InBatch \/ AfterBatch)
       => /\ success_count <= Len(icons)
          /\ success_count
               <= Cardinality({i \in Jobs : OutcomeLines(i) # {}})
          /\ success_count <= idx - 1
  /\ AfterBatch
       => success_count
            = Len(icons) - Cardinality({i \in Jobs : Skipped(i) \/ Failed(i)})
  /\ AfterSummary
       => /\ Reported = success_count
          /\ Reported = Cardinality({i \in Jobs : src[i] = "valid"})
          /\ Reported
               = Cardinality({i \in Jobs : ~Skipped(i) /\ ~Failed(i)})

C3_Witness ==
  /\ pc = "done"
  /\ Skipped(1) /\ Failed(2) /\ Succeeded(3) /\ Failed(4)
  /\ Reported = 1

(***************************************************************************)
(* C4: once the batch has processed a job whose source exists and is       *)
(* well-formed, its destination file exists and was rendered with width =  *)
(* height = the job's size (16, 32, 48, 128); with four valid sources all  *)
(* four destinations exist at their sizes.                                 *)
(***************************************************************************)
C4_ValidSourceRendered ==
  /\ \A i \in Jobs :
       (src[i] = "valid" /\ Processed(i))
         => /\ dst[i].kind = "png"
            /\ dst[i].width = icons[i].size
            /\ dst[i].height = icons[i].size
            /\ dst[i].data = icons[i].svg
            /\ icons[i].size = <<16, 32, 48, 128>>[i]
            /\ \E k \in OkLines(i) : out[k].n = icons[i].size
                                     /\ out[k].m = icons[i].size
  /\ (AfterBatch /\ \A i \in Jobs : src[i] = "valid")
       => {<<dst[i].kind, dst[i].width, dst[i].height>> : i \in Jobs}
            = {<<"png", 16, 16>>, <<"png", 32, 32>>, <<"png", 48, 48>>,
               <<"png", 128, 128>>}

C4_Witness ==
  /\ pc = "done"
  /\ \A i \in Jobs : src[i] = "valid" /\ prevDst[i] = NoFile
  /\ run = 1
  /\ dst[4].width = 128 /\ dst[4].height = 128

(***************************************************************************)
(* C5: every run reaches the summary step; no error propagates out and no  *)
(* fatal condition stops the program before the summary is reported.       *)
(* As stated it is refuted by the start-up import: C5_NeverStopsEarly.     *)
(* Amended (C5_SummaryOnceImported): every run in which cairosvg is        *)
(* imported, at once or after the installation step, reaches the summary   *)
(* and the end of the listing whatever the sources hold; the only stop     *)
(* before the summary is the second import failing, before main starts.    *)
(***************************************************************************)
C5_NeverStopsEarly == pc # "crashed"

C5_SummaryOnceImported ==
  /\ (pc = "main") ~> (pc = "done" /\ Cardinality(SummaryLines) = 1)
  /\ [](pc = "crashed"
          => /\ installed /\ ~avail
             /\ Printed("banner") = {}
             /\ SummaryLines = {})
  /\ [](AfterSummary => Cardinality(SummaryLines) = 1)

C5_Witness ==
  /\ pc = "done"
  /\ Cardinality(SummaryLines) = 1
  /\ src = <<"missing", "malformed", "unreadable", "missing">>

(***************************************************************************)
(* C6: with cairosvg unavailable at start-up the program fails fast with a *)
(* diagnostic, runs no installation step and processes no job.             *)
(* As stated it is refuted by the except clause: C6_NoInstallStep.         *)
(* Amended (C6_InstallThenRetry): the program prints the diagnostic, runs  *)
(* the installation step and retries the import; jobs are processed only   *)
(* if the retry succeeds, otherwise the program stops with no job          *)
(* processed, no destination touched and no summary.                       *)
(***************************************************************************)
C6_NoInstallStep ==
  Printed("cairosvg-not-found") # {}
    => /\ ~installed
       /\ pc \in {"install", "crashed"}

C6_InstallThenRetry ==
  /\ [][pc = "install"
          => /\ installed'
             /\ pc' = "reimport"
             /\ out' = out /\ dst' = dst]_vars
  /\ [](Printed("cairosvg-not-found") # {}
          => /\ out[1].kind = "cairosvg-not-found"
             /\ Cardinality(Printed("cairosvg-not-found")) = 1
             /\ pc = "install" \/ installed
             /\ pc \in {"install", "reimport", "crashed"}
                  => /\ Len(out) = 1
                     /\ dst = prevDst
                     /\ success_count = 0)
  /\ []((pc = "main" \/ InBatch \/ AfterBatch) => avail)
  /\ [](installed => Printed("cairosvg-not-found") # {})
  /\ [](pc = "crashed" => installed /\ ~avail)

C6_Witness ==
  /\ Printed("cairosvg-not-found") # {}
  /\ installed
  /\ pc = "done"
  /\ \E i \in Jobs : Succeeded(i)

(***************************************************************************)
(* C7: with unchanged sources, a second run of the batch leaves every      *)
(* destination file identical to what the first run left and reports the   *)
(* same success count.                                                     *)
(***************************************************************************)
C7_Idempotent ==
  (pc = "done" /\ run > 1)
    => /\ dst = prevDst
       /\ success_count = prevCount

C7_Witness ==
  /\ pc = "done" /\ run = 2
  /\ src = <<"valid", "missing", "malformed", "valid">>
  /\ dst[1].kind = "png" /\ dst[2] = Stale /\ dst[3] = NoFile
  /\ success_count = 2

(***************************************************************************)
(* C8: the summary says "all succeeded" exactly when the success counter   *)
(* equals the job count (four); otherwise it states the counter out of the *)
(* total; a run with a skipped or failed job never says "all succeeded".   *)
(***************************************************************************)
C8_SummaryLine ==
  AfterSummary
    => /\ Cardinality(SummaryLines) = 1
       /\ Len(icons) = 4
       /\ Printed("all-succeeded") # {} <=> success_count = Len(icons)
       /\ Printed("all-succeeded") = {}
            => \E k \in Printed("generated-n-of-m") :
                 out[k].n = success_count /\ out[k].m = Len(icons)
       /\ (\E i \in Jobs : Skipped(i) \/ Failed(i))
            => Printed("all-succeeded") = {}

C8_Witness ==
  /\ pc = "done"
  /\ Printed("all-succeeded") # {}
  /\ success_count = 4

(***************************************************************************)
(* C9: with exactly one source missing and the other three valid, the      *)
(* summary reports 3 out of 4, exactly one warning is printed and names    *)
(* the missing source, and exactly three destination files exist (the      *)
(* listing reports three files).                                           *)
(* As stated it is refuted when the destination of the missing job exists  *)
(* before the run: C9_ExactlyThreeFiles.                                   *)
(* Amended (C9_ThreeConvertedFiles): ... the three destinations of the     *)
(* present jobs exist and are listed; the destination of the missing job   *)
(* exists and is listed exactly if it existed before the run, so three     *)
(* files exist exactly when it did not.                                    *)
(***************************************************************************)
OneMissingThreeValid ==
  /\ Cardinality({i \in Jobs : src[i] = "missing"}) = 1
  /\ Cardinality({i \in Jobs : src[i] = "valid"}) = 3

FileLines(i) == {k \in Printed("file") : out[k].file = icons[i].png}

C9_SummaryAndWarning ==
  /\ \E k \in Printed("generated-n-of-m") : out[k].n = 3 /\ out[k].m = 4
  /\ Printed("all-succeeded") = {}
  /\ Cardinality(Printed("svg-not-found")) = 1
  /\ \A i \in Jobs : src[i] = "missing" <=> SkipLines(i) # {}

C9_ExactlyThreeFiles ==
  (pc = "done" /\ OneMissingThreeValid)
    => /\ C9_SummaryAndWarning
       /\ Cardinality({i \in Jobs : dst_exists(dst[i])}) = 3
       /\ Cardinality(Printed("file")) = 3

C9_ThreeConvertedFiles ==
  (pc = "done" /\ OneMissingThreeValid)
    => /\ C9_SummaryAndWarning
       /\ \A i \in Jobs :
            /\ src[i] = "valid"
                 => dst[i].kind = "png" /\ Cardinality(FileLines(i)) = 1
            /\ src[i] = "missing"
                 => /\ dst[i] = prevDst[i]
                    /\ Cardinality(FileLines(i))
                         = (IF dst_exists(prevDst[i]) THEN 1 ELSE 0)
       /\ Cardinality(Printed("file"))
            = Cardinality({i \in Jobs : dst_exists(dst[i])})
       /\ (\A i \in Jobs : src[i] = "missing" => ~dst_exists(prevDst[i]))
            <=> Cardinality(Printed("file")) = 3

C9_Witness ==
  /\ pc = "done"
  /\ src = <<"valid", "valid", "missing", "valid">>
  /\ prevDst[3] = NoFile
  /\ Cardinality(Printed("file")) = 3

(***************************************************************************)
(* C10: jobs are processed one after the other in list order (16, 32, 48,  *)
(* 128); each job is consumed once per run and reaches exactly one outcome *)
(* (success, skipped or failed) before the next job begins; the summary is *)
(* printed only after all four jobs have an outcome.                       *)
(***************************************************************************)
JobOf(k) ==
  CHOOSE i \in Jobs : out[k].file = icons[i].svg \/ out[k].file = icons[i].png

JobLines ==
  Printed("svg-not-found") \cup Printed("failed") \cup Printed("created")
    \cup Printed("generating")

C10_Sequential ==
  /\ \A i \in Jobs :
       /\ Cardinality(OutcomeLines(i)) <= 1
       /\ Cardinality(StartLines(i)) <= 1
       /\ Processed(i) => Cardinality(OutcomeLines(i)) = 1
       /\ (InBatch /\ i > idx) => OutcomeLines(i) \cup StartLines(i) = {}
       /\ (InBatch /\ i = idx /\ pc # "return") => OutcomeLines(i) = {}
       /\ (InBatch /\ i = idx /\ pc = "return")
            => Cardinality(OutcomeLines(i)) = 1
  /\ \A k1, k2 \in JobLines :
       k1 < k2 => \/ JobOf(k1) < JobOf(k2)
                  \/ /\ JobOf(k1) = JobOf(k2)
                     /\ out[k1].kind = "generating"
                     /\ out[k2].kind \in {"failed", "created"}
  /\ \A s \in SummaryLines :
       /\ \A i \in Jobs : Cardinality(OutcomeLines(i)) = 1
       /\ \A k \in JobLines : k < s
  /\ (InBatch \/ AfterBatch) => idx \in 1..(Len(icons) + 1)
  /\ AfterBatch => idx = Len(icons) + 1
  /\ <<icons[1].size, icons[2].size, icons[3].size, icons[4].size>>
       = <<16, 32, 48, 128>>

C10_Witness ==
  /\ pc = "done"
  /\ Cardinality(SummaryLines) = 1
  /\ Skipped(1) /\ Succeeded(2) /\ Failed(3) /\ Succeeded(4)

====
